---- MODULE Spec2Model ----
(***************************************************************************)
(* Model of mev_inspect/block.py: the cache-or-fetch assembly of a Block   *)
(* (create_from_block_number and its three sub-lookups run under           *)
(* asyncio.gather), and the pure helpers _get_miner_address_from_traces    *)
(* and get_transaction_hashes.                                             *)
(***************************************************************************)
EXTENDS Integers, Sequences, FiniteSets, TLC

VARIABLES
    cache,            \* the trace db: tables blocks, block_receipts, block_traces
    block_number,     \* per call: the block_number argument
    trace_db_session, \* per call: TRUE iff trace_db_session is not None
    pc,               \* per call, per sub-lookup: position of the gathered task
    result,           \* per call, per sub-lookup: value returned / exception raised
    gwResp,           \* per call, per sub-lookup: what the gateway answered
    gwCalls,          \* per call, per sub-lookup: number of w3.eth.* invocations
    cacheLookups,     \* per call, per sub-lookup: number of _find_* invocations
    gatherExc,        \* per call: the exception set on the gather future
    outer,            \* per call: position of create_from_block_number
    block,            \* per call: the Block returned
    error,            \* per call: the exception raised to the caller
    fnIn,             \* pure-function harness: the trace list argument
    fnPc,             \* pure-function harness: which function has been applied
    fnMiner,          \* pure-function harness: _get_miner_address_from_traces(fnIn)
    fnHashes,         \* pure-function harness: get_transaction_hashes(fnIn)
    events,           \* per call: history of finished sub-lookups and of the join
    latestResp,       \* get_latest_block_number: the node's answer to the request
    latestPc,         \* get_latest_block_number: position of the coroutine
    latestReqs,       \* get_latest_block_number: requests made to base_provider
    latestOut         \* get_latest_block_number: value returned / exception raised

callVars == <<block_number, trace_db_session, pc, result, gwResp, gwCalls,
              cacheLookups, gatherExc, outer, block, error>>
fnVars == <<fnIn, fnPc, fnMiner, fnHashes>>
latestVars == <<latestResp, latestPc, latestReqs, latestOut>>
auxVars == <<events, latestVars>>
vars == <<cache, callVars, fnVars, auxVars>>

----------------------------------------------------------------------------
(* Bounds *)

\* longest trace list handed to the pure helpers
MaxTraces == 5

\* longest number field answered to get_latest_block_number
MaxHexLen == 4

----------------------------------------------------------------------------
(* Program constants and value universe *)

\* block.py:94, the first block that carries baseFeePerGas
LondonBlock == 12965000

BlockNumbers == {LondonBlock - 1, LondonBlock}

\* the three coroutines handed to asyncio.gather, in argument order
Kinds == <<"block", "receipts", "traces">>
KindSet == {Kinds[i] : i \in 1..Len(Kinds)}
KindIndex(k) == CHOOSE i \in 1..Len(Kinds) : Kinds[i] = k

\* Optional values
None == "None"
NoRow == [tag |-> "norow"]
Row(v) == [tag |-> "row", value |-> v]
Pending == [tag |-> "pending"]
Ok(v) == [tag |-> "ok", value |-> v]
Exc(k, why) == [tag |-> "exc", kind |-> k, why |-> why]
NoExc == [tag |-> "noexc"]
NoBlock == [tag |-> "noblock"]
NoResp == [tag |-> "noresp"]
GwFail == [tag |-> "fail"]
Gw(v) == [tag |-> "resp", value |-> v]

----------------------------------------------------------------------------
(* Wire records and their parsed forms *)

\* raw trace JSON as the node or the block_traces table holds it
RawReward(author, hash) ==
    [type |-> "reward", transactionHash |-> hash, action |-> [author |-> author]]
RawCall(hash) ==
    [type |-> "call", transactionHash |-> hash, action |-> [callType |-> "call"]]
\* a record that lacks the fields Trace requires
RawBadTrace == [transactionHash |-> "A"]

\* raw receipt JSON
RawReceipt(hash) == [transactionHash |-> hash, status |-> 1]
RawBadReceipt == [status |-> 1]

\* Trace(**trace_json)
ParseTrace(raw) ==
    IF {"type", "action"} \subseteq DOMAIN raw
    THEN Ok([type |-> raw.type,
             transaction_hash |-> IF "transactionHash" \in DOMAIN raw
                                  THEN raw.transactionHash ELSE None,
             action |-> raw.action])
    ELSE [tag |-> "invalid"]

\* Receipt(**receipt)
ParseReceipt(raw) ==
    IF {"transactionHash", "status"} \subseteq DOMAIN raw
    THEN Ok([transaction_hash |-> raw.transactionHash, status |-> raw.status])
    ELSE [tag |-> "invalid"]

\* [Trace(**trace_json) for trace_json in traces_json]
ParseTraces(k, raws) ==
    IF \E i \in 1..Len(raws) : ParseTrace(raws[i]).tag # "ok"
    THEN Exc(k, "parse")
    ELSE Ok([i \in 1..Len(raws) |-> ParseTrace(raws[i]).value])

\* [Receipt(**receipt) for receipt in receipts_json]
ParseReceipts(k, raws) ==
    IF \E i \in 1..Len(raws) : ParseReceipt(raws[i]).tag # "ok"
    THEN Exc(k, "parse")
    ELSE Ok([i \in 1..Len(raws) |-> ParseReceipt(raws[i]).value])

----------------------------------------------------------------------------
(* Pure helpers *)

RECURSIVE MinerFrom(_, _)
\* the for loop of _get_miner_address_from_traces, from index i on
MinerFrom(traces, i) ==
    IF i > Len(traces) THEN None
    ELSE IF traces[i].type = "reward" THEN traces[i].action.author
    ELSE MinerFrom(traces, i + 1)

\* variant: the last reward trace wins
MinerLastReward(traces) ==
    LET R == {i \in 1..Len(traces) : traces[i].type = "reward"} IN
    IF R = {} THEN None
    ELSE traces[CHOOSE i \in R : \A j \in R : j <= i].action.author

_get_miner_address_from_traces(traces) == MinerFrom(traces, 1)

\* variant: no "not in result" test
HashStep_NoDedup(res, c) ==
    IF c.type # "reward"
    THEN IF c.transaction_hash # None
         THEN Append(res, c.transaction_hash)
         ELSE res
    ELSE res

\* one iteration of the loop of get_transaction_hashes
HashStep(res, c) ==
    IF c.type # "reward"
    THEN IF c.transaction_hash # None
            /\ ~(\E j \in 1..Len(res) : res[j] = c.transaction_hash)
         THEN Append(res, c.transaction_hash)
         ELSE res
    ELSE res

RECURSIVE HashLoop(_, _, _)
HashLoop(calls, i, res) ==
    IF i > Len(calls) THEN res
    ELSE HashLoop(calls, i + 1, HashStep(res, calls[i]))

get_transaction_hashes(calls) == HashLoop(calls, 1, <<>>)

----------------------------------------------------------------------------
(* The cache store and the gateway *)

\* a header row as the blocks table holds it, and a header as the node reports it
CachedHeader == [block_timestamp |-> 5, base_fee |-> 7]
NodeHeader == [timestamp |-> 6, baseFeePerGas |-> 9]

\* rows of table blocks: (block_timestamp, base_fee)
BlockRows ==
    {NoRow,
     Row([CachedHeader EXCEPT !.block_timestamp = 0]),
     Row(CachedHeader)}
\* rows of table block_receipts: raw_receipts
ReceiptRows == {NoRow, Row(<<>>), Row(<<RawReceipt("B")>>)}
\* rows of table block_traces: raw_traces
TraceRows ==
    {NoRow, Row(<<>>), Row(<<RawCall("B"), RawReward("m2", None)>>),
     Row(<<RawBadTrace>>)}

\* answers of w3.eth.get_block
HeaderResps ==
    {GwFail,
     Gw(NodeHeader),
     Gw([timestamp |-> NodeHeader.timestamp])}
\* answers of w3.eth.get_block_receipts
ReceiptResps == {GwFail, Gw(<<>>), Gw(<<RawReceipt("A")>>), Gw(<<RawBadReceipt>>)}
\* answers of w3.eth.trace_block
TraceResps ==
    {GwFail, Gw(<<>>),
     Gw(<<RawCall("A"), RawReward("m1", None), RawReward("m2", None)>>)}

GatewayResps(k) ==
    CASE k = "block" -> HeaderResps
      [] k = "receipts" -> ReceiptResps
      [] k = "traces" -> TraceResps

\* variant: the lookup never finds a row
_find_block_NeverFound(store, n) == <<0, 0>>

\* variant: the height rule of the fetch path applied to the cached base fee
_find_block_ZeroRule(store, n) ==
    LET row == store.blocks[n] IN
    IF row = NoRow THEN <<0, 0>>
    ELSE <<row.value.block_timestamp,
           IF n >= LondonBlock THEN row.value.base_fee ELSE 0>>

\* _find_block: (0, 0) when no row, else the row's pair
_find_block(store, n) ==
    LET row == store.blocks[n] IN
    IF row = NoRow THEN <<0, 0>>
    ELSE <<row.value.block_timestamp, row.value.base_fee>>

\* _find_block_receipts: None when no row, else the parsed list
_find_block_receipts(store, n) ==
    LET row == store.block_receipts[n] IN
    IF row = NoRow THEN NoRow ELSE ParseReceipts("receipts", row.value)

\* _find_block_traces: None when no row, else the parsed list
_find_block_traces(store, n) ==
    LET row == store.block_traces[n] IN
    IF row = NoRow THEN NoRow ELSE ParseTraces("traces", row.value)

\* variant: truthiness tests, "if existing_block_receipts:", so that an empty
\* list counts as a miss
CacheLookup_EmptyIsMiss(k, store, n) ==
    CASE k = "block" ->
            LET existing == _find_block(store, n) IN
            IF existing[1] # 0 THEN Ok(existing) ELSE NoRow
      [] k = "receipts" ->
            IF _find_block_receipts(store, n) = Ok(<<>>) THEN NoRow
            ELSE _find_block_receipts(store, n)
      [] k = "traces" ->
            IF _find_block_traces(store, n) = Ok(<<>>) THEN NoRow
            ELSE _find_block_traces(store, n)

\* variant: the whole pair compared with the (0, 0) sentinel
CacheLookup_PairSentinel(k, store, n) ==
    CASE k = "block" ->
            LET existing == _find_block(store, n) IN
            IF existing # <<0, 0>> THEN Ok(existing) ELSE NoRow
      [] k = "receipts" -> _find_block_receipts(store, n)
      [] k = "traces" -> _find_block_traces(store, n)

\* The part of _find_or_fetch_* under "if trace_db_session is not None":
\* Ok(v) is a return from the cache, an exception is raised by the lookup,
\* NoRow falls through to the fetch.
CacheLookup(k, store, n) ==
    CASE k = "block" ->
            LET existing == _find_block(store, n) IN
            IF existing[1] # 0 THEN Ok(existing) ELSE NoRow
      [] k = "receipts" -> _find_block_receipts(store, n)
      [] k = "traces" -> _find_block_traces(store, n)

\* variant: ">" for ">="
FetchBlockReturn_Strict(n, block_json) ==
    IF n > LondonBlock
    THEN IF "baseFeePerGas" \in DOMAIN block_json
         THEN Ok(<<block_json.timestamp, block_json.baseFeePerGas>>)
         ELSE Exc("block", "KeyError")
    ELSE Ok(<<block_json.timestamp, 0>>)

\* the return expression of _fetch_block
FetchBlockReturn(n, block_json) ==
    IF n >= LondonBlock
    THEN IF "baseFeePerGas" \in DOMAIN block_json
         THEN Ok(<<block_json.timestamp, block_json.baseFeePerGas>>)
         ELSE Exc("block", "KeyError")
    ELSE Ok(<<block_json.timestamp, 0>>)

\* What _fetch_* does with the gateway's answer
FetchReturn(k, n, resp) ==
    IF resp = GwFail THEN Exc(k, "transport")
    ELSE CASE k = "block" -> FetchBlockReturn(n, resp.value)
           [] k = "receipts" -> ParseReceipts(k, resp.value)
           [] k = "traces" -> ParseTraces(k, resp.value)

\* variant: a header that was found or fetched is written to table blocks
StoreAfter_WriteBack(store, k, n, res) ==
    IF k = "block" /\ res.tag = "ok"
    THEN [store EXCEPT !.blocks[n] =
            Row([block_timestamp |-> res.value[1], base_fee |-> res.value[2]])]
    ELSE store

\* What the module leaves in the trace db after a lookup or fetch for block n
StoreAfter(store, k, n, res) == store

----------------------------------------------------------------------------
(* create_from_block_number *)

\* variant: the header pair unpacked in the wrong order
MakeBlock_Swapped(n, header, receipts, traces) ==
    [block_number |-> n,
     block_timestamp |-> header[2],
     miner |-> _get_miner_address_from_traces(traces),
     base_fee_per_gas |-> header[1],
     traces |-> traces,
     receipts |-> receipts]

\* Block(block_number=..., block_timestamp=..., miner=..., ...)
MakeBlock(n, header, receipts, traces) ==
    [block_number |-> n,
     block_timestamp |-> header[1],
     miner |-> _get_miner_address_from_traces(traces),
     base_fee_per_gas |-> header[2],
     traces |-> traces,
     receipts |-> receipts]

\* variant: the lookup is made whether or not a session was passed
FindOrFetch_AlwaysLookup(k, session, store, n) == CacheLookup(k, store, n)

\* First half of _find_or_fetch_*: the cache is consulted only when a session
\* was passed
FindOrFetch(k, session, store, n) ==
    IF session THEN CacheLookup(k, store, n) ELSE NoRow

\* variant: gather(..., return_exceptions=True) with failed lookups read as
\* empty results
GatherOutcome_Partial(exc, pcs, res) ==
    IF \A k \in KindSet : pcs[k] \in {"done", "failed"}
    THEN Ok(<<IF res["block"].tag = "ok" THEN res["block"].value ELSE <<0, 0>>,
              IF res["receipts"].tag = "ok" THEN res["receipts"].value ELSE <<>>,
              IF res["traces"].tag = "ok" THEN res["traces"].value ELSE <<>> >>)
    ELSE Pending

\* variant: asyncio.wait(..., return_when=FIRST_COMPLETED), the lookups that
\* have not returned read as empty results
GatherOutcome_FirstCompleted(exc, pcs, res) ==
    IF exc # NoExc THEN exc
    ELSE IF \E k \in KindSet : pcs[k] = "done"
         THEN Ok(<<IF res["block"].tag = "ok" THEN res["block"].value ELSE <<0, 0>>,
                   IF res["receipts"].tag = "ok" THEN res["receipts"].value ELSE <<>>,
                   IF res["traces"].tag = "ok" THEN res["traces"].value ELSE <<>> >>)
         ELSE Pending

\* variant: a timeout around each gateway call, a lookup that got no answer
\* reads as an empty result
GatherOutcome_Timeout(exc, pcs, res) ==
    IF exc # NoExc THEN exc
    ELSE IF \A k \in KindSet : pcs[k] \in {"done", "hung"}
         THEN Ok(<<IF res["block"].tag = "ok" THEN res["block"].value ELSE <<0, 0>>,
                   IF res["receipts"].tag = "ok" THEN res["receipts"].value ELSE <<>>,
                   IF res["traces"].tag = "ok" THEN res["traces"].value ELSE <<>> >>)
         ELSE Pending

\* variant: child exceptions are swallowed, the join waits for three results
GatherOutcome_Swallow(exc, pcs, res) ==
    IF \A k \in KindSet : pcs[k] = "done"
    THEN Ok(<<res["block"].value, res["receipts"].value, res["traces"].value>>)
    ELSE Pending

\* asyncio.gather without return_exceptions: the first exception raised by a
\* child is the outcome; otherwise the outcome is the list of results once
\* every child has returned
GatherOutcome(exc, pcs, res) ==
    IF exc # NoExc THEN exc
    ELSE IF \A k \in KindSet : pcs[k] = "done"
         THEN Ok(<<res["block"].value, res["receipts"].value, res["traces"].value>>)
         ELSE Pending

\* the exception the gather future holds after a child finished with r
GatherExcAfter(exc, r) ==
    IF exc = NoExc /\ r.tag = "exc" THEN r ELSE exc

Quiescent(c) ==
    /\ outer[c] \in {"idle", "returned", "failed"}
    /\ \A k \in KindSet : pc[c][k] \in {"none", "done", "failed"}

\* A caller invokes create_from_block_number(w3, n, session): gather wraps the
\* three coroutines in tasks and the caller's coroutine suspends on the join
Call(c, n, session) ==
    /\ Quiescent(c)
    /\ block_number' = [block_number EXCEPT ![c] = n]
    /\ trace_db_session' = [trace_db_session EXCEPT ![c] = session]
    /\ pc' = [pc EXCEPT ![c] = [k \in KindSet |-> "ready"]]
    /\ result' = [result EXCEPT ![c] = [k \in KindSet |-> Pending]]
    /\ gwResp' = [gwResp EXCEPT ![c] = [k \in KindSet |-> NoResp]]
    /\ gwCalls' = [gwCalls EXCEPT ![c] = [k \in KindSet |-> 0]]
    /\ cacheLookups' = [cacheLookups EXCEPT ![c] = [k \in KindSet |-> 0]]
    /\ gatherExc' = [gatherExc EXCEPT ![c] = NoExc]
    /\ outer' = [outer EXCEPT ![c] = "awaiting"]
    /\ block' = [block EXCEPT ![c] = NoBlock]
    /\ error' = [error EXCEPT ![c] = NoExc]
    /\ UNCHANGED <<cache, fnVars>>

\* First step of the task of _find_or_fetch_<k>: the synchronous cache lookup
\* and, on a miss, the call of the gateway method, up to the await on it.
\* The event loop runs the three first steps in gather's argument order.
Start(c, k) ==
    /\ pc[c][k] = "ready"
    /\ \A j \in 1..(KindIndex(k) - 1) : pc[c][Kinds[j]] # "ready"
    /\ LET n == block_number[c]
           found == FindOrFetch(k, trace_db_session[c], cache, n)
       IN
       /\ cacheLookups' = [cacheLookups EXCEPT ![c][k] =
                             IF trace_db_session[c] THEN @ + 1 ELSE @]
       /\ IF found = NoRow
          THEN /\ gwCalls' = [gwCalls EXCEPT ![c][k] = @ + 1]
               /\ pc' = [pc EXCEPT ![c][k] = "fetching"]
               /\ UNCHANGED <<result, gatherExc>>
          ELSE /\ pc' = [pc EXCEPT ![c][k] =
                           IF found.tag = "ok" THEN "done" ELSE "failed"]
               /\ result' = [result EXCEPT ![c][k] = found]
               /\ gatherExc' = [gatherExc EXCEPT ![c] = GatherExcAfter(@, found)]
               /\ UNCHANGED gwCalls
       /\ cache' = StoreAfter(cache, k, n, found)
    /\ UNCHANGED <<block_number, trace_db_session, gwResp, outer, block, error,
                   fnVars>>

\* variant: a fetch that failed in transport is issued once more
GatewayReturn_Retry(c, k, resp) ==
    /\ pc[c][k] = "fetching"
    /\ LET n == block_number[c]
           r == FetchReturn(k, n, resp)
       IN
       IF resp = GwFail /\ gwCalls[c][k] < 2
       THEN /\ gwCalls' = [gwCalls EXCEPT ![c][k] = @ + 1]
            /\ UNCHANGED <<gwResp, result, pc, gatherExc, cache>>
       ELSE /\ gwResp' = [gwResp EXCEPT ![c][k] = resp]
            /\ result' = [result EXCEPT ![c][k] = r]
            /\ pc' = [pc EXCEPT ![c][k] = IF r.tag = "ok" THEN "done" ELSE "failed"]
            /\ gatherExc' = [gatherExc EXCEPT ![c] = GatherExcAfter(@, r)]
            /\ cache' = StoreAfter(cache, k, n, r)
            /\ UNCHANGED gwCalls
    /\ UNCHANGED <<block_number, trace_db_session, cacheLookups, outer,
                   block, error, fnVars>>

\* variant: the receipts and traces fetches extend one list they share, so
\* the one that returns second also holds what the first one fetched
GatewayReturn_SharedList(c, k, resp) ==
    /\ pc[c][k] = "fetching"
    /\ LET n == block_number[c]
           own == FetchReturn(k, n, resp)
           other == IF k = "receipts" THEN "traces" ELSE "receipts"
           r == IF /\ k # "block"
                   /\ own.tag = "ok"
                   /\ pc[c][other] = "done"
                THEN Ok(result[c][other].value \o own.value)
                ELSE own
       IN
       /\ gwResp' = [gwResp EXCEPT ![c][k] = resp]
       /\ result' = [result EXCEPT ![c][k] = r]
       /\ pc' = [pc EXCEPT ![c][k] = IF r.tag = "ok" THEN "done" ELSE "failed"]
       /\ gatherExc' = [gatherExc EXCEPT ![c] = GatherExcAfter(@, r)]
       /\ cache' = StoreAfter(cache, k, n, r)
    /\ UNCHANGED <<block_number, trace_db_session, gwCalls, cacheLookups, outer,
                   block, error, fnVars>>

\* variant: the fetched value is kept in a module-level slot per kind, which
\* every call in progress reads
GatewayReturn_SharedResult(c, k, resp) ==
    /\ pc[c][k] = "fetching"
    /\ LET n == block_number[c]
           r == FetchReturn(k, n, resp)
       IN
       /\ gwResp' = [gwResp EXCEPT ![c][k] = resp]
       /\ result' = [d \in DOMAIN result |-> [result[d] EXCEPT ![k] = r]]
       /\ pc' = [pc EXCEPT ![c][k] = IF r.tag = "ok" THEN "done" ELSE "failed"]
       /\ gatherExc' = [gatherExc EXCEPT ![c] = GatherExcAfter(@, r)]
       /\ cache' = StoreAfter(cache, k, n, r)
    /\ UNCHANGED <<block_number, trace_db_session, gwCalls, cacheLookups, outer,
                   block, error, fnVars>>

\* The gateway answers the outstanding call of sub-lookup k and _fetch_<k>
\* runs to its return or raises
GatewayReturn(c, k, resp) ==
    /\ pc[c][k] = "fetching"
    /\ LET n == block_number[c]
           r == FetchReturn(k, n, resp)
       IN
       /\ gwResp' = [gwResp EXCEPT ![c][k] = resp]
       /\ result' = [result EXCEPT ![c][k] = r]
       /\ pc' = [pc EXCEPT ![c][k] = IF r.tag = "ok" THEN "done" ELSE "failed"]
       /\ gatherExc' = [gatherExc EXCEPT ![c] = GatherExcAfter(@, r)]
       /\ cache' = StoreAfter(cache, k, n, r)
    /\ UNCHANGED <<block_number, trace_db_session, gwCalls, cacheLookups, outer,
                   block, error, fnVars>>

\* The gateway never answers the outstanding call of sub-lookup k: the await
\* in _fetch_<k> does not resume, and nothing at this layer times it out
GatewayHang(c, k) ==
    /\ pc[c][k] = "fetching"
    /\ pc' = [pc EXCEPT ![c][k] = "hung"]
    /\ UNCHANGED <<cache, block_number, trace_db_session, result, gwResp, gwCalls,
                   cacheLookups, gatherExc, outer, block, error, fnVars>>

\* variant: a join that cancels the sub-lookups still in flight when it
\* re-raises the first exception
Return_Cancel(c) ==
    /\ outer[c] = "awaiting"
    /\ \A k \in KindSet : pc[c][k] # "ready"
    /\ LET out == GatherOutcome(gatherExc[c], pc[c], result[c]) IN
       /\ out # Pending
       /\ IF out.tag = "exc"
          THEN /\ outer' = [outer EXCEPT ![c] = "failed"]
               /\ error' = [error EXCEPT ![c] = out]
               /\ pc' = [pc EXCEPT ![c] =
                           [k \in KindSet |->
                               IF pc[c][k] = "fetching" THEN "failed" ELSE pc[c][k]]]
               /\ result' = [result EXCEPT ![c] =
                           [k \in KindSet |->
                               IF pc[c][k] = "fetching"
                               THEN Exc(k, "CancelledError") ELSE result[c][k]]]
               /\ UNCHANGED block
          ELSE /\ outer' = [outer EXCEPT ![c] = "returned"]
               /\ block' = [block EXCEPT ![c] =
                              MakeBlock(block_number[c], out.value[1],
                                        out.value[2], out.value[3])]
               /\ UNCHANGED <<error, pc, result>>
    /\ UNCHANGED <<cache, block_number, trace_db_session, gwResp,
                   gwCalls, cacheLookups, gatherExc, fnVars>>

\* The join resolves and create_from_block_number resumes: it re-raises the
\* exception or builds the Block
Return(c) ==
    /\ outer[c] = "awaiting"
    /\ \A k \in KindSet : pc[c][k] # "ready"
    /\ LET out == GatherOutcome(gatherExc[c], pc[c], result[c]) IN
       /\ out # Pending
       /\ IF out.tag = "exc"
          THEN /\ outer' = [outer EXCEPT ![c] = "failed"]
               /\ error' = [error EXCEPT ![c] = out]
               /\ UNCHANGED block
          ELSE /\ outer' = [outer EXCEPT ![c] = "returned"]
               /\ block' = [block EXCEPT ![c] =
                              MakeBlock(block_number[c], out.value[1],
                                        out.value[2], out.value[3])]
               /\ UNCHANGED error
    /\ UNCHANGED <<cache, block_number, trace_db_session, pc, result, gwResp,
                   gwCalls, cacheLookups, gatherExc, fnVars>>

----------------------------------------------------------------------------
(* Harness for the pure helpers *)

FnTraces ==
    {[type |-> "reward", transaction_hash |-> None, action |-> [author |-> "m1"]],
     [type |-> "reward", transaction_hash |-> "A", action |-> [author |-> "m2"]],
     [type |-> "call", transaction_hash |-> "A", action |-> [callType |-> "call"]],
     [type |-> "call", transaction_hash |-> "B", action |-> [callType |-> "call"]],
     [type |-> "call", transaction_hash |-> None, action |-> [callType |-> "call"]]}

FnInputs == UNION {[1..n -> FnTraces] : n \in 0..MaxTraces}

ApplyMiner ==
    /\ fnPc \in {"init", "hashes"}
    /\ fnMiner' = _get_miner_address_from_traces(fnIn)
    /\ fnPc' = IF fnPc = "init" THEN "miner" ELSE "both"
    /\ UNCHANGED <<cache, callVars, fnIn, fnHashes>>

ApplyHashes ==
    /\ fnPc \in {"init", "miner"}
    /\ fnHashes' = get_transaction_hashes(fnIn)
    /\ fnPc' = IF fnPc = "init" THEN "hashes" ELSE "both"
    /\ UNCHANGED <<cache, callVars, fnIn, fnMiner>>

----------------------------------------------------------------------------
(* get_latest_block_number *)

\* characters of the number field: hex digits, the prefix letter, a non-digit
HexChars == {"0", "1", "a", "f", "x", "g"}

\* a hex string is the sequence of its characters
HexStrings == UNION {[1..n -> HexChars] : n \in 0..MaxHexLen}

HexDigit(ch) ==
    CASE ch = "0" -> 0
      [] ch = "1" -> 1
      [] ch = "a" -> 10
      [] ch = "f" -> 15
      [] OTHER -> -1

RECURSIVE HexFold(_, _, _)
\* the digits of str from index i on, accumulated most significant first
HexFold(str, i, acc) ==
    IF i > Len(str) THEN Ok(acc)
    ELSE IF HexDigit(str[i]) < 0 THEN Exc("latest", "ValueError")
    ELSE HexFold(str, i + 1, acc * 16 + HexDigit(str[i]))

\* mev_inspect.utils.hex_to_int: the integer a hex string denotes
hex_to_int(str) ==
    LET digits == IF Len(str) >= 2 /\ str[1] = "0" /\ str[2] = "x"
                  THEN SubSeq(str, 3, Len(str)) ELSE str
    IN IF digits = <<>> THEN Exc("latest", "ValueError")
       ELSE HexFold(digits, 1, 0)

\* JSON null
JsonNull == [null |-> TRUE]

\* answers of base_provider.make_request
LatestResps ==
    {GwFail,
     Gw([error |-> "e"]),
     Gw([result |-> JsonNull]),
     Gw([result |-> [hash |-> "h"]])}
    \cup {Gw([result |-> [number |-> h]]) : h \in HexStrings}

\* variant: latest_block.get("result", {}).get("number", "0x0")
LatestReturn_Default(resp) ==
    IF resp = GwFail THEN Exc("latest", "transport")
    ELSE LET latest_block == resp.value IN
         IF "result" \notin DOMAIN latest_block THEN Ok(0)
         ELSE IF "number" \notin DOMAIN latest_block.result THEN Ok(0)
         ELSE hex_to_int(latest_block.result.number)

\* hex_to_int(latest_block["result"]["number"])
LatestReturn(resp) ==
    IF resp = GwFail THEN Exc("latest", "transport")
    ELSE LET latest_block == resp.value IN
         IF "result" \notin DOMAIN latest_block THEN Exc("latest", "KeyError")
         ELSE IF latest_block.result = JsonNull THEN Exc("latest", "TypeError")
         ELSE IF "number" \notin DOMAIN latest_block.result
              THEN Exc("latest", "KeyError")
         ELSE hex_to_int(latest_block.result.number)

\* get_latest_block_number up to the await: the request is handed to the
\* provider
LatestRequest ==
    /\ latestPc = "init"
    /\ latestReqs' = Append(latestReqs,
                            [method |-> "eth_getBlockByNumber",
                             params |-> <<"latest", FALSE>>])
    /\ latestPc' = "awaiting"
    /\ UNCHANGED <<cache, callVars, fnVars, events, latestResp, latestOut>>

\* the provider answers and get_latest_block_number returns or raises
LatestResponse ==
    /\ latestPc = "awaiting"
    /\ latestOut' = LatestReturn(latestResp)
    /\ latestPc' = IF latestOut'.tag = "ok" THEN "done" ELSE "failed"
    /\ UNCHANGED <<cache, callVars, fnVars, events, latestResp, latestReqs>>

----------------------------------------------------------------------------
(* Specifications *)

EmptyStore ==
    [blocks |-> [n \in BlockNumbers |-> NoRow],
     block_receipts |-> [n \in BlockNumbers |-> NoRow],
     block_traces |-> [n \in BlockNumbers |-> NoRow]]

Stores ==
    [blocks : [BlockNumbers -> BlockRows],
     block_receipts : [BlockNumbers -> ReceiptRows],
     block_traces : [BlockNumbers -> TraceRows]]

InitCalls(callers) ==
    /\ block_number = [c \in callers |-> LondonBlock]
    /\ trace_db_session = [c \in callers |-> FALSE]
    /\ pc = [c \in callers |-> [k \in KindSet |-> "none"]]
    /\ result = [c \in callers |-> [k \in KindSet |-> Pending]]
    /\ gwResp = [c \in callers |-> [k \in KindSet |-> NoResp]]
    /\ gwCalls = [c \in callers |-> [k \in KindSet |-> 0]]
    /\ cacheLookups = [c \in callers |-> [k \in KindSet |-> 0]]
    /\ gatherExc = [c \in callers |-> NoExc]
    /\ outer = [c \in callers |-> "idle"]
    /\ block = [c \in callers |-> NoBlock]
    /\ error = [c \in callers |-> NoExc]

FnIdle ==
    /\ fnIn = <<>>
    /\ fnPc = "idle"
    /\ fnMiner = None
    /\ fnHashes = <<>>

\* no history is kept
NoEvents(callers) == events = [c \in callers |-> <<>>]

\* get_latest_block_number is not in use
LatestIdle ==
    /\ latestResp = NoResp
    /\ latestPc = "idle"
    /\ latestReqs = <<>>
    /\ latestOut = Pending

Init ==
    /\ cache \in Stores
    /\ InitCalls({1})
    /\ FnIdle
    /\ NoEvents({1})
    /\ LatestIdle

Next ==
    \/ \E c \in DOMAIN outer, n \in BlockNumbers, s \in BOOLEAN :
          Call(c, n, s) /\ UNCHANGED auxVars
    \/ \E c \in DOMAIN outer, k \in KindSet :
          Start(c, k) /\ UNCHANGED auxVars
    \/ \E c \in DOMAIN outer, k \in KindSet :
          \E resp \in GatewayResps(k) :
             GatewayReturn(c, k, resp) /\ UNCHANGED auxVars
    \/ \E c \in DOMAIN outer :
          Return(c) /\ UNCHANGED auxVars

Spec == Init /\ [][Next]_vars

InitFn ==
    /\ cache = EmptyStore
    /\ InitCalls({1})
    /\ fnIn \in FnInputs
    /\ fnPc = "init"
    /\ fnMiner = None
    /\ fnHashes = <<>>
    /\ NoEvents({1})
    /\ LatestIdle

NextFn ==
    \/ ApplyMiner /\ UNCHANGED auxVars
    \/ ApplyHashes /\ UNCHANGED auxVars

SpecFn == InitFn /\ [][NextFn]_vars

InitLatest ==
    /\ cache = EmptyStore
    /\ InitCalls({1})
    /\ FnIdle
    /\ NoEvents({1})
    /\ latestResp \in LatestResps
    /\ latestPc = "init"
    /\ latestReqs = <<>>
    /\ latestOut = Pending

NextLatest == LatestRequest \/ LatestResponse

SpecLatest == InitLatest /\ [][NextLatest]_vars

\* A store with rows for some kinds of each block only
PartialStore ==
    [blocks |-> [n \in BlockNumbers |->
                   IF n = LondonBlock - 1 THEN Row(CachedHeader) ELSE NoRow],
     block_receipts |-> [n \in BlockNumbers |->
                   IF n = LondonBlock THEN Row(<<RawReceipt("B")>>) ELSE NoRow],
     block_traces |-> [n \in BlockNumbers |->
                   IF n = LondonBlock - 1
                   THEN Row(<<RawCall("B"), RawReward("m2", None)>>) ELSE NoRow]]

SmallStores == {EmptyStore, PartialStore}

\* Two callers on one event loop
Init2 ==
    /\ cache \in SmallStores
    /\ InitCalls({1, 2})
    /\ FnIdle
    /\ NoEvents({1, 2})
    /\ LatestIdle

\* no other caller has asked for block n
OtherBlock(c, n) ==
    \A d \in DOMAIN outer \ {c} : outer[d] = "idle" \/ block_number[d] # n

\* The callers ask for different block numbers
Next2 ==
    \/ \E c \in DOMAIN outer, n \in BlockNumbers, s \in BOOLEAN :
          OtherBlock(c, n) /\ Call(c, n, s) /\ UNCHANGED auxVars
    \/ \E c \in DOMAIN outer, k \in KindSet :
          Start(c, k) /\ UNCHANGED auxVars
    \/ \E c \in DOMAIN outer, k \in KindSet :
          \E resp \in GatewayResps(k) :
             GatewayReturn(c, k, resp) /\ UNCHANGED auxVars
    \/ \E c \in DOMAIN outer :
          Return(c) /\ UNCHANGED auxVars

Spec2 == Init2 /\ [][Next2]_vars

\* One caller, with gateway calls that may never be answered
InitSmall ==
    /\ cache \in SmallStores
    /\ InitCalls({1})
    /\ FnIdle
    /\ NoEvents({1})
    /\ LatestIdle

NextHang ==
    \/ \E c \in DOMAIN outer, n \in BlockNumbers, s \in BOOLEAN :
          Call(c, n, s) /\ UNCHANGED auxVars
    \/ \E c \in DOMAIN outer, k \in KindSet :
          Start(c, k) /\ UNCHANGED auxVars
    \/ \E c \in DOMAIN outer, k \in KindSet :
          \E resp \in GatewayResps(k) :
             GatewayReturn(c, k, resp) /\ UNCHANGED auxVars
    \/ \E c \in DOMAIN outer, k \in KindSet :
          GatewayHang(c, k) /\ UNCHANGED auxVars
    \/ \E c \in DOMAIN outer :
          Return(c) /\ UNCHANGED auxVars

SpecHang == InitSmall /\ [][NextHang]_vars

\* One caller, with the order in which its sub-lookups finish and its join
\* resolves kept in events
NextOrd ==
    \/ \E c \in DOMAIN outer, n \in BlockNumbers, s \in BOOLEAN :
          /\ Call(c, n, s)
          /\ events' = [events EXCEPT ![c] = <<>>]
          /\ UNCHANGED latestVars
    \/ \E c \in DOMAIN outer, k \in KindSet :
          /\ Start(c, k)
          /\ events' = [events EXCEPT ![c] =
                          IF pc'[c][k] \in {"done", "failed"}
                          THEN Append(@, k) ELSE @]
          /\ UNCHANGED latestVars
    \/ \E c \in DOMAIN outer, k \in KindSet :
          \E resp \in GatewayResps(k) :
             /\ GatewayReturn(c, k, resp)
             /\ events' = [events EXCEPT ![c] = Append(@, k)]
             /\ UNCHANGED latestVars
    \/ \E c \in DOMAIN outer :
          /\ Return(c)
          /\ events' = [events EXCEPT ![c] = Append(@, "join")]
          /\ UNCHANGED latestVars

SpecOrd == InitSmall /\ [][NextOrd]_vars

\* A store with usable rows of every kind for every block
FullStore ==
    [blocks |-> [n \in BlockNumbers |-> Row(CachedHeader)],
     block_receipts |-> [n \in BlockNumbers |-> Row(<<RawReceipt("B")>>)],
     block_traces |-> [n \in BlockNumbers |->
                         Row(<<RawCall("B"), RawReward("m2", None)>>)]]

InitLive ==
    /\ cache \in SmallStores \cup {FullStore}
    /\ InitCalls({1})
    /\ FnIdle
    /\ NoEvents({1})
    /\ LatestIdle

LiveCallers == {1}

\* The event loop runs every ready task and callback, and every gateway call
\* is answered
Fairness ==
    \A c \in LiveCallers :
        /\ WF_vars(\E k \in KindSet : Start(c, k) /\ UNCHANGED auxVars)
        /\ \A k \in KindSet :
              WF_vars(\E resp \in GatewayResps(k) :
                         GatewayReturn(c, k, resp) /\ UNCHANGED auxVars)
        /\ WF_vars(Return(c) /\ UNCHANGED auxVars)

SpecLive == InitLive /\ [][Next]_vars /\ Fairness

----------------------------------------------------------------------------
(* Properties *)

Callers == DOMAIN outer

\* the task of sub-lookup k of call c has run its first step
Started(c, k) == pc[c][k] \in {"fetching", "done", "failed"}

\* the row of table blocks for the block of call c
HeaderRow(c) == cache.blocks[block_number[c]]

\* the header row of call c exists with a nonzero timestamp
HeaderCached(c) ==
    /\ trace_db_session[c]
    /\ HeaderRow(c) # NoRow
    /\ HeaderRow(c).value.block_timestamp # 0

\* C1: when a cache is configured and the cached header row has a nonzero
\* timestamp, the gateway's header fetch is never invoked and the Block
\* returned carries exactly the cached (timestamp, base fee) pair.
C1_CachedHeaderNoFetch ==
    \A c \in Callers :
        (HeaderCached(c) /\ Started(c, "block")) =>
            /\ gwCalls[c]["block"] = 0
            /\ gwResp[c]["block"] = NoResp
            /\ outer[c] = "returned" =>
                  /\ block[c].block_timestamp = HeaderRow(c).value.block_timestamp
                  /\ block[c].base_fee_per_gas = HeaderRow(c).value.base_fee

C1_Witness ==
    \E c \in Callers :
        /\ HeaderCached(c)
        /\ outer[c] = "returned"
        /\ block[c].block_timestamp = CachedHeader.block_timestamp
        /\ block[c].base_fee_per_gas = CachedHeader.base_fee
        /\ gwCalls[c]["receipts"] = 1

\* the raw row of table block_receipts / block_traces for the block of call c
ListRow(c, k) ==
    IF k = "receipts" THEN cache.block_receipts[block_number[c]]
    ELSE cache.block_traces[block_number[c]]

\* C2: a cached receipts (traces) row holding an empty list is a cache hit:
\* the sub-lookup returns the empty list, the Block carries it, and the
\* gateway's receipts (traces) fetch is never invoked.
C2_EmptyListIsHit ==
    \A c \in Callers : \A k \in {"receipts", "traces"} :
        (trace_db_session[c] /\ ListRow(c, k) = Row(<<>>) /\ Started(c, k)) =>
            /\ gwCalls[c][k] = 0
            /\ pc[c][k] = "done"
            /\ result[c][k] = Ok(<<>>)
            /\ outer[c] = "returned" => block[c][k] = <<>>

C2_Witness ==
    \E c \in Callers :
        /\ trace_db_session[c]
        /\ ListRow(c, "receipts") = Row(<<>>)
        /\ ListRow(c, "traces") = Row(<<>>)
        /\ outer[c] = "returned"
        /\ block[c].receipts = <<>>
        /\ block[c].traces = <<>>
        /\ gwCalls[c]["block"] = 1

Failed(c) == {k \in KindSet : pc[c][k] = "failed"}

\* C3: once any sub-lookup has failed the call never returns a Block; when the
\* call completes it has failed, and the failure surfaced to the caller is the
\* failure of a failed sub-lookup (of the only one, when one failed), also
\* when the other two sub-lookups returned.
C3_NoPartialResult ==
    \A c \in Callers :
        /\ Failed(c) # {} =>
              /\ outer[c] # "returned"
              /\ block[c] = NoBlock
              /\ outer[c] = "failed" => error[c] \in {result[c][k] : k \in Failed(c)}
        /\ outer[c] = "failed" => (Failed(c) # {} /\ error[c].tag = "exc")
        /\ outer[c] = "returned" => \A k \in KindSet : pc[c][k] = "done"

C3_Witness ==
    \E c \in Callers : \E k \in KindSet :
        /\ outer[c] = "failed"
        /\ pc[c][k] = "failed"
        /\ \A j \in KindSet \ {k} : pc[c][j] = "done"
        /\ error[c] = result[c][k]
        /\ block[c] = NoBlock

\* C4: no step of the module changes the contents of the cache store.
C4_CacheNeverWritten == [][cache' = cache]_vars

C4_Witness ==
    \E c \in Callers :
        /\ trace_db_session[c]
        /\ outer[c] = "returned"
        /\ \A k \in KindSet : gwCalls[c][k] = 1 /\ cacheLookups[c][k] = 1
        /\ HeaderRow(c) = NoRow
        /\ ListRow(c, "receipts") = NoRow
        /\ ListRow(c, "traces") = NoRow

\* the header the gateway answered to call c (when it did answer one)
FreshHeader(c) == gwResp[c]["block"].value

\* the gateway answered the header fetch of call c with a header
FetchedFresh(c) == gwResp[c]["block"] # NoResp /\ gwResp[c]["block"] # GwFail

\* C5: a header fetched fresh for a block below 12,965,000 yields base fee 0
\* whatever the gateway reported, and the fetch does not fail when the header
\* has no baseFeePerGas; from 12,965,000 on (boundary included) the fresh
\* base fee is the value the gateway reported.
C5_FreshBaseFee ==
    \A c \in Callers :
        FetchedFresh(c) =>
            /\ block_number[c] < 12965000 =>
                  /\ pc[c]["block"] = "done"
                  /\ result[c]["block"].value[2] = 0
                  /\ outer[c] = "returned" => block[c].base_fee_per_gas = 0
            /\ (block_number[c] >= 12965000 /\ pc[c]["block"] = "done") =>
                  /\ "baseFeePerGas" \in DOMAIN FreshHeader(c)
                  /\ result[c]["block"].value[2] = FreshHeader(c).baseFeePerGas
                  /\ outer[c] = "returned" =>
                        block[c].base_fee_per_gas = FreshHeader(c).baseFeePerGas

C5_Witness ==
    \E c \in Callers :
        /\ block_number[c] = 12964999
        /\ FetchedFresh(c)
        /\ FreshHeader(c) = NodeHeader
        /\ NodeHeader.baseFeePerGas # 0
        /\ outer[c] = "returned"
        /\ block[c].base_fee_per_gas = 0

\* the header pair the fetch path yields for block n from header json
FreshPair(n, json) == <<json.timestamp, IF n >= 12965000 THEN json.baseFeePerGas ELSE 0>>

\* C6: with a cache configured, a header row whose timestamp is 0 behaves as
\* an absent row does: the lookup does not fail, the gateway's header fetch is
\* invoked, a failure of the sub-lookup can only come from the fetch, and the
\* Block's timestamp and base fee are those of the fetch, not the cached ones.
C6_ZeroTimestampIsMiss ==
    \A c \in Callers :
        (/\ trace_db_session[c]
         /\ Started(c, "block")
         /\ \/ HeaderRow(c) = NoRow
            \/ HeaderRow(c).value.block_timestamp = 0) =>
            /\ cacheLookups[c]["block"] = 1
            /\ gwCalls[c]["block"] = 1
            /\ pc[c]["block"] # "fetching" => gwResp[c]["block"] # NoResp
            /\ pc[c]["block"] = "done" =>
                  result[c]["block"] = Ok(FreshPair(block_number[c], FreshHeader(c)))
            /\ outer[c] = "returned" =>
                  /\ block[c].block_timestamp = FreshHeader(c).timestamp
                  /\ block[c].base_fee_per_gas =
                        FreshPair(block_number[c], FreshHeader(c))[2]

C6_Witness ==
    \E c \in Callers :
        /\ trace_db_session[c]
        /\ HeaderRow(c) # NoRow
        /\ HeaderRow(c).value.block_timestamp = 0
        /\ HeaderRow(c).value.base_fee # NodeHeader.baseFeePerGas
        /\ block_number[c] = 12965000
        /\ outer[c] = "returned"
        /\ block[c].block_timestamp = NodeHeader.timestamp
        /\ block[c].base_fee_per_gas = NodeHeader.baseFeePerGas

\* the cache has nothing usable of kind k for the block of call c
Missed(c, k) ==
    IF k = "block"
    THEN HeaderRow(c) = NoRow \/ HeaderRow(c).value.block_timestamp = 0
    ELSE ListRow(c, k) = NoRow

\* C7: for each kind separately, the gateway's fetch is invoked by a call iff
\* no cache is configured or the cache lookup of that kind missed; without a
\* cache no lookup is made and every started sub-lookup fetches.
C7_FetchIffMiss ==
    \A c \in Callers : \A k \in KindSet :
        Started(c, k) =>
            /\ gwCalls[c][k] >= 1 <=> (~trace_db_session[c] \/ Missed(c, k))
            /\ ~trace_db_session[c] => (cacheLookups[c][k] = 0 /\ gwCalls[c][k] = 1)
            /\ trace_db_session[c] => cacheLookups[c][k] = 1

C7_Witness ==
    \E c \in Callers :
        /\ trace_db_session[c]
        /\ outer[c] = "returned"
        /\ ~Missed(c, "block")
        /\ Missed(c, "receipts")
        /\ Missed(c, "traces")
        /\ gwCalls[c] = [k \in KindSet |-> IF k = "block" THEN 0 ELSE 1]

\* C8: a header served from the cache keeps the cached base fee at every block
\* number, also below 12,965,000 where the fetch path would put 0.
C8_CachedBaseFeeKept ==
    \A c \in Callers :
        (HeaderCached(c) /\ pc[c]["block"] = "done") =>
            /\ result[c]["block"].value[2] = HeaderRow(c).value.base_fee
            /\ outer[c] = "returned" =>
                  block[c].base_fee_per_gas = HeaderRow(c).value.base_fee

C8_Witness ==
    \E c \in Callers :
        /\ HeaderCached(c)
        /\ block_number[c] < 12965000
        /\ outer[c] = "returned"
        /\ block[c].base_fee_per_gas = CachedHeader.base_fee
        /\ CachedHeader.base_fee # 0

\* indices of the reward traces of a trace list
RewardAt(traces) == {i \in 1..Len(traces) : traces[i].type = "reward"}

Min(S) == CHOOSE i \in S : \A j \in S : i <= j

\* C9: _get_miner_address_from_traces returns the author of the first
\* reward trace in sequence order, and None when there is no reward trace.
C9_FirstRewardAuthor ==
    fnPc \in {"miner", "both"} =>
        IF RewardAt(fnIn) = {} THEN fnMiner = None
        ELSE fnMiner = fnIn[Min(RewardAt(fnIn))].action.author

C9_Witness ==
    /\ fnPc = "miner"
    /\ Cardinality(RewardAt(fnIn)) >= 2
    /\ 1 \notin RewardAt(fnIn)
    /\ \E i, j \in RewardAt(fnIn) :
          i < j /\ fnIn[i].action.author # fnIn[j].action.author
    /\ fnMiner = fnIn[Min(RewardAt(fnIn))].action.author

\* indices of the traces that contribute hash h to get_transaction_hashes
HashAt(traces, h) ==
    {i \in 1..Len(traces) :
        traces[i].type # "reward" /\ traces[i].transaction_hash = h}

\* the hashes carried by non-reward traces
TxHashes(traces) ==
    {traces[i].transaction_hash : i \in
        {j \in 1..Len(traces) :
            traces[j].type # "reward" /\ traces[j].transaction_hash # None}}

\* C10: get_transaction_hashes returns exactly the hashes of the non-reward
\* traces that have one, each once, in order of first occurrence.
C10_HashesDedupInOrder ==
    fnPc \in {"hashes", "both"} =>
        /\ {fnHashes[i] : i \in 1..Len(fnHashes)} = TxHashes(fnIn)
        /\ Len(fnHashes) = Cardinality(TxHashes(fnIn))
        /\ \A i, j \in 1..Len(fnHashes) :
              i < j => Min(HashAt(fnIn, fnHashes[i])) < Min(HashAt(fnIn, fnHashes[j]))

C10_Witness ==
    /\ fnPc = "hashes"
    /\ Len(fnIn) = 5
    /\ fnIn[1].type = "reward"
    /\ fnIn[2].type = "call" /\ fnIn[2].transaction_hash = "A"
    /\ fnIn[3].type = "call" /\ fnIn[3].transaction_hash = "B"
    /\ fnIn[4].type = "call" /\ fnIn[4].transaction_hash = "A"
    /\ fnIn[5].type = "reward"
    /\ fnHashes = <<"A", "B">>

\* what sub-lookup k of a call alone on the loop yields for block n, given the
\* store and the answer resp of the gateway to its fetch (if it made one)
SoloLookup(k, n, session, store, resp) ==
    LET found == FindOrFetch(k, session, store, n) IN
    IF found # NoRow THEN found ELSE FetchReturn(k, n, resp)

\* the sub-lookup has returned or raised
Finished(c, k) == pc[c][k] \in {"done", "failed"}

Solo(c, k) ==
    SoloLookup(k, block_number[c], trace_db_session[c], cache, gwResp[c][k])

\* C11: with two calls in progress for different block numbers, under every
\* interleaving each sub-lookup yields what it yields alone for its own block
\* number, store rows and gateway answers, the Block returned is the one built
\* from those, and a failure reported is one of the call's own sub-lookups.
C11_CallsDoNotInterfere ==
    \A c \in Callers :
        /\ \A k \in KindSet : Finished(c, k) => result[c][k] = Solo(c, k)
        /\ outer[c] = "returned" =>
              /\ \A k \in KindSet : Finished(c, k) /\ Solo(c, k).tag = "ok"
              /\ block[c] = MakeBlock(block_number[c], Solo(c, "block").value,
                                      Solo(c, "receipts").value,
                                      Solo(c, "traces").value)
        /\ outer[c] = "failed" =>
              \E k \in KindSet :
                  Finished(c, k) /\ Solo(c, k).tag = "exc" /\ error[c] = Solo(c, k)

C11_Witness ==
    /\ Callers = {1, 2}
    /\ block_number[1] # block_number[2]
    /\ outer[1] = "awaiting" /\ outer[2] = "awaiting"
    /\ pc[1]["block"] = "done" /\ gwCalls[1]["block"] = 1
    /\ pc[1]["traces"] = "fetching"
    /\ pc[2]["receipts"] = "done" /\ gwCalls[2]["receipts"] = 1
    /\ pc[2]["block"] = "fetching"

\* the answer carries result.number
HasNumber(resp) ==
    /\ resp # GwFail
    /\ "result" \in DOMAIN resp.value
    /\ "number" \in DOMAIN resp.value.result

RECURSIVE Pow16(_)
Pow16(e) == IF e = 0 THEN 1 ELSE 16 * Pow16(e - 1)

RECURSIVE SumTo(_, _)
\* the sum of f[1..n]
SumTo(f, n) == IF n = 0 THEN 0 ELSE f[n] + SumTo(f, n - 1)

\* "0x" followed by at least one hex digit
WellFormedHex(str) ==
    /\ Len(str) >= 3
    /\ str[1] = "0" /\ str[2] = "x"
    /\ \A i \in 3..Len(str) : str[i] \in {"0", "1", "a", "f"}

\* the integer a well formed hex string denotes, by positional weights
HexValue(str) ==
    LET w == [i \in 1..(Len(str) - 2) |->
                (CASE str[i + 2] = "0" -> 0 [] str[i + 2] = "1" -> 1
                   [] str[i + 2] = "a" -> 10 [] str[i + 2] = "f" -> 15)
                * Pow16(Len(str) - 2 - i)]
    IN SumTo(w, Len(str) - 2)

\* the string holds a character that is neither a hex digit nor the prefix
BadHex(str) == \E i \in 1..Len(str) : str[i] = "g"

\* C12: get_latest_block_number makes one request eth_getBlockByNumber
\* ["latest", False] and returns the integer denoted by result.number ("0xa"
\* gives 10); when result or number is absent, or the hex has a character that
\* is no hex digit, it raises and returns no integer.
C12_LatestBlockNumber ==
    latestPc \in {"done", "failed"} =>
        /\ latestReqs = <<[method |-> "eth_getBlockByNumber",
                           params |-> <<"latest", FALSE>>]>>
        /\ (HasNumber(latestResp)
               /\ WellFormedHex(latestResp.value.result.number)) =>
              /\ latestPc = "done"
              /\ latestOut = Ok(HexValue(latestResp.value.result.number))
        /\ (~HasNumber(latestResp)
               \/ BadHex(latestResp.value.result.number)) =>
              /\ latestPc = "failed"
              /\ latestOut.tag = "exc"
        /\ latestPc = "done" <=> latestOut.tag = "ok"

C12_Witness ==
    /\ latestPc = "done"
    /\ latestResp = Gw([result |-> [number |-> <<"0", "x", "a">>]])
    /\ latestOut = Ok(10)

\* C13: create_from_block_number completes only when all three sub-lookups
\* have returned or one has failed; whenever a Block has been returned every
\* sub-lookup has returned successfully and none is pending.
C13_CompletesAfterJoin ==
    \A c \in Callers :
        /\ (outer[c] = "returned" \/ block[c] # NoBlock) =>
              \A k \in KindSet :
                  /\ pc[c][k] = "done"
                  /\ result[c][k] # Pending
                  /\ result[c][k].tag = "ok"
        /\ outer[c] \in {"returned", "failed"} =>
              \/ \A k \in KindSet : pc[c][k] = "done"
              \/ \E k \in KindSet : pc[c][k] = "failed"

C13_Witness ==
    \E c \in Callers :
        /\ outer[c] = "returned"
        /\ ~trace_db_session[c]
        /\ \A k \in KindSet : gwCalls[c][k] = 1 /\ pc[c][k] = "done"
        /\ block[c] # NoBlock

\* C14: the Block returned has the input block number, the header lookup's
\* (timestamp, base fee) pair, the lists the receipts and traces lookups
\* returned, and as miner the author of the first reward trace of exactly
\* those traces (None without one), from the cache or from the gateway.
C14_BlockCombinesLookups ==
    \A c \in Callers :
        outer[c] = "returned" =>
            LET t == result[c]["traces"].value IN
            /\ DOMAIN block[c] = {"block_number", "block_timestamp", "miner",
                                  "base_fee_per_gas", "traces", "receipts"}
            /\ block[c].block_number = block_number[c]
            /\ block[c].block_timestamp = result[c]["block"].value[1]
            /\ block[c].base_fee_per_gas = result[c]["block"].value[2]
            /\ block[c].receipts = result[c]["receipts"].value
            /\ block[c].traces = t
            /\ block[c].miner = IF RewardAt(t) = {} THEN None
                                ELSE t[Min(RewardAt(t))].action.author

C14_Witness ==
    \E c \in Callers :
        /\ outer[c] = "returned"
        /\ trace_db_session[c]
        /\ gwCalls[c]["traces"] = 0
        /\ gwCalls[c]["block"] = 1
        /\ gwCalls[c]["receipts"] = 1
        /\ block[c].miner = "m2"
        /\ Len(block[c].traces) = 2
        /\ Len(block[c].receipts) = 1
        /\ block[c].block_timestamp # block[c].base_fee_per_gas

\* the sub-lookups of call c whose gateway call never returns
Hung(c) == {k \in KindSet : pc[c][k] = "hung"}

\* C15 as stated: while a gateway fetch of a call never returns, the call
\* neither returns a Block nor reports a failure.
C15_HungNeverCompletes ==
    \A c \in Callers : Hung(c) # {} => outer[c] = "awaiting"

\* C15 amended: while a gateway fetch of a call never returns, the call never
\* returns a Block; it stays incomplete as long as no other sub-lookup has
\* failed, and when it completes it reports the failure of a sub-lookup that
\* failed.
C15_HungNeverReturnsBlock ==
    \A c \in Callers :
        Hung(c) # {} =>
            /\ outer[c] # "returned"
            /\ block[c] = NoBlock
            /\ Failed(c) = {} => outer[c] = "awaiting"
            /\ outer[c] = "failed" =>
                  error[c] \in {result[c][k] : k \in Failed(c)}

C15_Witness ==
    \E c \in Callers : \E k \in KindSet :
        /\ Hung(c) = {k}
        /\ \A j \in KindSet \ {k} : pc[c][j] = "done" /\ gwCalls[c][j] = 1
        /\ outer[c] = "awaiting"
        /\ block[c] = NoBlock

\* C16: the join that reports the first failure leaves the sub-lookups still
\* in flight as they are, and after the call has failed such a sub-lookup
\* stays in flight until the gateway answers it and then runs to its own
\* return or failure: nothing cancels it.
C16_SiblingsNotCancelled ==
    [][\A c \in Callers : \A k \in KindSet :
          /\ (outer[c] = "awaiting" /\ outer'[c] = "failed") =>
                (pc'[c][k] = pc[c][k] /\ result'[c][k] = result[c][k])
          /\ (outer[c] = "failed" /\ outer'[c] = "failed"
                 /\ pc[c][k] = "fetching" /\ pc'[c][k] # "fetching") =>
                /\ gwResp'[c][k] # NoResp
                /\ result'[c][k] = FetchReturn(k, block_number[c], gwResp'[c][k])
                /\ pc'[c][k] = IF result'[c][k].tag = "ok" THEN "done" ELSE "failed"
      ]_vars

\* a sub-lookup got its answer from the gateway and returned after the join
\* had already reported a failure
C16_Witness ==
    \E c \in Callers : \E i, j \in 1..Len(events[c]) :
        /\ outer[c] = "failed"
        /\ i < j
        /\ events[c][i] = "join"
        /\ events[c][j] \in KindSet
        /\ pc[c][events[c][j]] = "done"
        /\ gwResp[c][events[c][j]] # NoResp

\* the Block that the store rows and the gateway answers of call c determine
BlockOf(c) ==
    MakeBlock(block_number[c], Solo(c, "block").value, Solo(c, "receipts").value,
              Solo(c, "traces").value)

\* C19: the Block returned is determined by the block number, the store and
\* the answers of the gateway alone, whatever the order in which the
\* sub-lookups finished.
C19_OrderIndependent ==
    \A c \in Callers :
        outer[c] = "returned" =>
            /\ Len(events[c]) = 4
            /\ events[c][4] = "join"
            /\ {events[c][i] : i \in 1..3} = KindSet
            /\ block[c] = BlockOf(c)

\* all three fetched, answered in the reverse of the order of issue
C19_Witness ==
    \E c \in Callers :
        /\ outer[c] = "returned"
        /\ \A k \in KindSet : gwCalls[c][k] = 1
        /\ events[c] = <<"traces", "receipts", "block", "join">>
        /\ Len(block[c].traces) = 3
        /\ Len(block[c].receipts) = 1

\* C17 as stated: the cache lookup is a point of suspension like the gateway
\* call, that is, the step in which a sub-lookup begins its cache lookup ends
\* with the lookup outstanding, so that steps of the other sub-lookups can
\* come before the lookup returns; and the step that issues the gateway call
\* ends with the call outstanding.
C17_SuspendsAtCacheLookup ==
    [][\A c \in Callers : \A k \in KindSet :
          /\ cacheLookups'[c][k] > cacheLookups[c][k] =>
                /\ pc'[c][k] \notin {"fetching", "done", "failed"}
                /\ gwCalls'[c][k] = gwCalls[c][k]
                /\ result'[c][k] = Pending
          /\ gwCalls'[c][k] > gwCalls[c][k] => pc'[c][k] = "fetching"
      ]_vars

\* C18: within one call each gateway fetch is invoked at most once and each
\* cache table is looked up at most once, and a sub-lookup that has failed
\* stays failed without a further fetch or lookup until the next call.
C18_NoRetry ==
    [][\A c \in Callers : \A k \in KindSet :
          /\ gwCalls'[c][k] <= 1
          /\ cacheLookups'[c][k] <= 1
          /\ (pc[c][k] = "failed" /\ pc'[c][k] # "ready") =>
                /\ pc'[c][k] = "failed"
                /\ gwCalls'[c][k] = gwCalls[c][k]
                /\ cacheLookups'[c][k] = cacheLookups[c][k]
                /\ result'[c][k] = result[c][k]
      ]_vars

C18_Witness ==
    \E c \in Callers : \E k \in KindSet :
        /\ trace_db_session[c]
        /\ pc[c][k] = "failed"
        /\ gwResp[c][k] = GwFail
        /\ gwCalls[c][k] = 1
        /\ cacheLookups[c][k] = 1
        /\ outer[c] = "failed"
        /\ \A j \in KindSet \ {k} : pc[c][j] = "done"

\* every lookup of call c is answered by the store
AllHit(c) ==
    /\ trace_db_session[c]
    /\ \A k \in KindSet : ~Missed(c, k)

\* C20: when the loop runs every ready step and every gateway call is
\* answered, a call in progress eventually returns a Block or reports a
\* failure; when all three lookups hit the cache it gets there without any
\* gateway call.
C20_EventuallyCompletes ==
    \A c \in LiveCallers :
        /\ (outer[c] = "awaiting") ~> (outer[c] \in {"returned", "failed"})
        /\ (outer[c] = "awaiting" /\ AllHit(c)) ~>
              (/\ outer[c] = "returned"
               /\ \A k \in KindSet : gwCalls[c][k] = 0 /\ gwResp[c][k] = NoResp)

C20_Witness ==
    \E c \in Callers :
        /\ AllHit(c)
        /\ outer[c] = "returned"
        /\ \A k \in KindSet : gwCalls[c][k] = 0 /\ cacheLookups[c][k] = 1

====
